---------------------------- MODULE Spec2Model ----------------------------
(***************************************************************************)
(* Markdown table editor: the table codec (markdownParser.ts), the webview *)
(* grid session (webview/TableEditor.tsx) and the extension host's         *)
(* write-back (extension.ts).                                              *)
(*                                                                         *)
(* Text is a sequence of one-character strings; a grid is a sequence of    *)
(* rows, a row a sequence of cells, a cell a text.  JavaScript indices are *)
(* 0-based, sequences here 1-based: JavaScript's x[i] is x[i + 1] here.    *)
(***************************************************************************)
EXTENDS Integers, Sequences, FiniteSets, TLC

VARIABLES
    \* codec experiments (markdownParser.ts applied to drawn inputs)
    cKind,      \* "grid": a grid is encoded, then decoded; "text": a text is decoded
    cStage,     \* "input", "encoded", "decoded"
    cGrid,      \* the grid drawn (kind "grid") or the cells the text was built from
    cText,      \* the text drawn or generated
    cOut,       \* the grid parseMarkdownTable returned
    \* extension host (extension.ts)
    doc,        \* the document: its lines
    tableInfo,  \* the range findTableAtPosition returned when the command ran
    toExt,      \* updateTable messages posted by the webview, not yet handled
    toWeb,      \* syncData messages posted to the webview, not yet handled
    \* webview (TableEditor.tsx)
    initialData,      \* window.initialData
    data,             \* useState: the grid; <<>> once a render has thrown
    activeCell,       \* useState: <<>> (null) or <<row, col>>
    colWidths,        \* useState: the column widths
    isRowIndexColumn, \* useState: the row-number mode
    timers,           \* pending setTimeout calls of the write-back effect
    debounceHandle,   \* the timer id the effect's cleanup will clear (0: none pending)
    focusTimers,      \* pending setTimeout calls of focusCell
    isResizing,       \* useState: <<>> (null) or <<index, startWidth>> during a drag
    \* history, read by the properties only
    origDoc,     \* the document when the command ran
    sinceChange, \* time since the last setData, up to the delay
    posted,      \* updateTable messages posted since the last setData
    loopRounds,  \* syncData messages that replaced the grid since the last input
    userOps,     \* inputs the user gave the webview so far
    extEdits     \* edits of the document made outside the webview so far

codecVars == <<cKind, cStage, cGrid, cText, cOut>>

hostVars == <<doc, tableInfo, toExt, toWeb>>

webVars == <<initialData, data, activeCell, colWidths, isRowIndexColumn,
             timers, debounceHandle, focusTimers, isResizing>>

historyVars == <<origDoc, sinceChange, posted, loopRounds, userOps, extEdits>>

sessionVars == <<hostVars, webVars, historyVars>>

vars == <<codecVars, sessionVars>>

-----------------------------------------------------------------------------
(* Text helpers: String.prototype.trim, split, padEnd, join, repeat.       *)

Max(a, b) == IF a >= b THEN a ELSE b

Min(a, b) == IF a <= b THEN a ELSE b

\* the white space String.prototype.trim removes, within the model's alphabet
IsWhiteSpace(ch) == ch \in {" ", "\t", "\n", "\r"}

RECURSIVE TrimStart(_)
TrimStart(s) ==
    IF s = <<>> THEN s
    ELSE IF IsWhiteSpace(Head(s)) THEN TrimStart(Tail(s)) ELSE s

RECURSIVE TrimEnd(_)
TrimEnd(s) ==
    IF s = <<>> THEN s
    ELSE IF IsWhiteSpace(s[Len(s)]) THEN TrimEnd(SubSeq(s, 1, Len(s) - 1)) ELSE s

TrimIdentity(s) == s

Trim(s) == TrimEnd(TrimStart(s))

\* index of the first occurrence of ch in s, 0 when there is none
RECURSIVE IndexFrom(_, _, _)
IndexFrom(s, ch, i) ==
    IF i > Len(s) THEN 0
    ELSE IF s[i] = ch THEN i ELSE IndexFrom(s, ch, i + 1)

Includes(s, ch) == IndexFrom(s, ch, 1) # 0

\* s.split(ch): always at least one piece
RECURSIVE SplitOn(_, _)
SplitOn(s, ch) ==
    LET i == IndexFrom(s, ch, 1)
    IN  IF i = 0 THEN <<s>>
        ELSE <<SubSeq(s, 1, i - 1)>> \o SplitOn(SubSeq(s, i + 1, Len(s)), ch)

\* one "\r" right before the "\n" belongs to the separator /\r?\n/
DropCr(piece) ==
    IF piece # <<>> /\ piece[Len(piece)] = "\r"
    THEN SubSeq(piece, 1, Len(piece) - 1) ELSE piece

\* s.split(/\r?\n/)
SplitLines(s) ==
    LET pieces == SplitOn(s, "\n")
    IN  [k \in 1..Len(pieces) |->
            IF k < Len(pieces) THEN DropCr(pieces[k]) ELSE pieces[k]]

RECURSIVE Join(_, _)
Join(parts, sep) ==
    IF parts = <<>> THEN <<>>
    ELSE IF Len(parts) = 1 THEN parts[1]
    ELSE parts[1] \o sep \o Join(Tail(parts), sep)

Repeat(ch, n) == [k \in 1..n |-> ch]

\* cell.padEnd(n): spaces appended up to length n, never cut
PadEnd(s, n) == IF Len(s) >= n THEN s ELSE s \o Repeat(" ", n - Len(s))

StartsWith(s, ch) == s # <<>> /\ s[1] = ch

EndsWith(s, ch) == s # <<>> /\ s[Len(s)] = ch

-----------------------------------------------------------------------------
(* markdownParser.ts                                                       *)

\* cells.shift() / cells.pop(), both no-ops on an empty array
Shift(cells) == IF cells = <<>> THEN cells ELSE Tail(cells)

Pop(cells) == IF cells = <<>> THEN cells ELSE SubSeq(cells, 1, Len(cells) - 1)

\* the callback of lines.map in parseMarkdownTable
ParseLine(line) ==
    LET raw    == SplitOn(line, "|")
        cells  == [k \in 1..Len(raw) |-> Trim(raw[k])]
        cells1 == IF StartsWith(Trim(line), "|") THEN Shift(cells) ELSE cells
    IN  IF EndsWith(Trim(line), "|") THEN Pop(cells1) ELSE cells1

\* cell.match(/^[-:]+$/)
IsSeparatorCell(cell) ==
    /\ cell # <<>>
    /\ \A k \in 1..Len(cell) : cell[k] \in {"-", ":"}

RemoveAt(seq, k) == SubSeq(seq, 1, k - 1) \o SubSeq(seq, k + 1, Len(seq))

ParseKeepSeparator(text) ==
    LET lines == SplitLines(Trim(text))
    IN  IF Len(lines) < 2 THEN <<>>
        ELSE [k \in 1..Len(lines) |-> ParseLine(lines[k])]

parseMarkdownTable(text) ==
    LET lines == SplitLines(Trim(text))
        rows  == [k \in 1..Len(lines) |-> ParseLine(lines[k])]
    IN  IF Len(lines) < 2 THEN <<>>
        ELSE IF Len(rows) > 1
                /\ \A k \in 1..Len(rows[2]) : IsSeparatorCell(rows[2][k])
             THEN RemoveAt(rows, 2)
             ELSE rows

\* column widths without the minimum of 3
ColWidthsNoMinimum(grid) ==
    [i \in 1..Len(grid[1]) |->
        LET lens == {Len(grid[r][i]) : r \in {q \in 1..Len(grid) : i <= Len(grid[q])}}
        IN  CHOOSE m \in lens : \A n \in lens : n <= m]

\* colWidths of generateMarkdownTable: one entry per header cell, the longest
\* cell of the column over the rows that have it, at least 3
ColWidthsOf(grid) ==
    [i \in 1..Len(grid[1]) |->
        LET lens == {Len(grid[r][i]) : r \in {q \in 1..Len(grid) : i <= Len(grid[q])}}
        IN  Max(3, CHOOSE m \in lens : \A n \in lens : n <= m)]

\* formatRow: colWidths[i] || 0 pads a cell beyond the header's length to 0
FormatRow(row, widths) ==
    <<"|", " ">>
    \o Join([i \in 1..Len(row) |->
                PadEnd(row[i], IF i <= Len(widths) THEN widths[i] ELSE 0)],
            <<" ", "|", " ">>)
    \o <<" ", "|">>

generateMarkdownTable(grid) ==
    IF grid = <<>> THEN <<>>
    ELSE
        LET widths    == ColWidthsOf(grid)
            separator == [i \in 1..Len(widths) |-> Repeat("-", widths[i])]
            sepLine   == <<"|", " ">> \o Join(separator, <<" ", "|", " ">>)
                         \o <<" ", "|", "\n">>
            body      == [r \in 1..(Len(grid) - 1) |->
                            FormatRow(grid[r + 1], widths) \o <<"\n">>]
        IN  FormatRow(grid[1], widths) \o <<"\n">> \o sepLine \o Join(body, <<>>)

-----------------------------------------------------------------------------
(* Codec experiments: inputs drawn at Init, the codec applied by actions.  *)

MaxGridRows == 2
MaxGridCols == 2

\* cell texts: empty, short, longer than the minimum width, padded with
\* white space, holding a pipe, a line feed, separator-like
CodecCells ==
    { <<>>, <<"a">>, <<"a", "b">>, <<"a", "b", "c", "d">>,
      <<" ", "a">>, <<"a", " ">>, <<"a", "|", "b">>, <<"a", "\n", "b">>,
      <<"-">>, <<":", "-", ":">> }

\* the r x c grid with header cells h, data cells b and cell s at (pr, pc)
GridOf(r, c, h, b, s, pr, pc) ==
    [i \in 1..r |-> [j \in 1..c |->
        IF i = pr /\ j = pc THEN s ELSE IF i = 1 THEN h ELSE b]]

CodecGrids ==
    { GridOf(r, c, h, b, s, pr, pc) :
        r \in 1..MaxGridRows, c \in 1..MaxGridCols,
        h \in CodecCells, b \in CodecCells, s \in CodecCells,
        pr \in 1..MaxGridRows, pc \in 1..MaxGridCols }

\* raw cell texts of a well-formed table line: no pipe, no line break
WellFormedCells ==
    { <<>>, <<" ">>, <<"a">>, <<" ", "a", " ">>, <<"a", " ", "b">>,
      <<"a", "b", "c", "d">>, <<"-">>, <<" ", "-", "-", "-", " ">> }

\* separator cells: hyphens with optional colons, optionally padded
SeparatorCells ==
    { <<"-", "-", "-">>, <<":", "-", "-">>, <<"-", "-", ":">>,
      <<":", "-", ":">>, <<" ", "-", "-", "-", " ">>, <<"-">> }

LineBreaks == { <<"\n">>, <<"\r", "\n">> }

\* "|" cell "|" cell ... "|"
PipeLine(cells) == <<"|">> \o Join(cells, <<"|">>) \o <<"|">>

\* header line, separator line, data lines, each ended by eol
WellFormedText(raw, sepCell, eol) ==
    LET sepLine == PipeLine([j \in 1..Len(raw[1]) |-> sepCell])
        lines   == <<PipeLine(raw[1]), sepLine>>
                   \o [r \in 1..(Len(raw) - 1) |-> PipeLine(raw[r + 1])]
    IN  Join([k \in 1..Len(lines) |-> lines[k] \o eol], <<>>)

WellFormedGrids ==
    { GridOf(r, c, h, b, s, pr, pc) :
        r \in 1..(MaxGridRows + 1), c \in 1..MaxGridCols,
        h \in WellFormedCells, b \in WellFormedCells, s \in WellFormedCells,
        pr \in 1..(MaxGridRows + 1), pc \in 1..MaxGridCols }

\* the session's variables while only the codec is exercised
SessionIdle ==
    /\ doc = <<>> /\ tableInfo = [startLine |-> 0, endLine |-> 0]
    /\ toExt = <<>> /\ toWeb = <<>>
    /\ initialData = <<>> /\ data = <<>> /\ activeCell = <<>> /\ colWidths = <<>>
    /\ isRowIndexColumn = FALSE
    /\ timers = {} /\ debounceHandle = 0 /\ focusTimers = {} /\ isResizing = <<>>
    /\ origDoc = <<>> /\ sinceChange = 0 /\ posted = 0 /\ loopRounds = 0
    /\ userOps = 0 /\ extEdits = 0

CodecInit ==
    /\ SessionIdle
    /\ cStage = "input"
    /\ cOut = <<>>
    /\ \/ /\ cKind = "grid"
          /\ cGrid \in CodecGrids
          /\ cText = <<>>
       \/ /\ cKind = "text"
          /\ cGrid \in WellFormedGrids
          /\ \E sepCell \in SeparatorCells, eol \in LineBreaks :
                cText = WellFormedText(cGrid, sepCell, eol)

\* generateMarkdownTable applied to the drawn grid
Encode ==
    /\ cKind = "grid" /\ cStage = "input"
    /\ cText' = generateMarkdownTable(cGrid)
    /\ cStage' = "encoded"
    /\ UNCHANGED <<cKind, cGrid, cOut, sessionVars>>

\* parseMarkdownTable applied to the text at hand
Decode ==
    /\ \/ cKind = "grid" /\ cStage = "encoded"
       \/ cKind = "text" /\ cStage = "input"
    /\ cOut' = parseMarkdownTable(cText)
    /\ cStage' = "decoded"
    /\ UNCHANGED <<cKind, cGrid, cText, sessionVars>>

CodecNext == Encode \/ Decode

CodecSpec == CodecInit /\ [][CodecNext]_vars

-----------------------------------------------------------------------------
(* findTableAtPosition (markdownParser.ts)                                 *)

HasPipe(line) == Includes(Trim(line), "|")

\* "Expand upwards": startLine and endLine are 0-based line indices
RECURSIVE ExpandUp(_, _)
ExpandUp(lines, startLine) ==
    IF startLine > 0 /\ HasPipe(lines[startLine])
    THEN ExpandUp(lines, startLine - 1) ELSE startLine

\* a locator that never looks below the line
ExpandDownNever(lines, endLine) == endLine

\* "Expand downwards"
RECURSIVE ExpandDown(_, _)
ExpandDown(lines, endLine) ==
    IF endLine < Len(lines) - 1 /\ HasPipe(lines[endLine + 2])
    THEN ExpandDown(lines, endLine + 1) ELSE endLine

\* the null result
NoTable == [found |-> FALSE, startLine |-> 0, endLine |-> 0, content |-> <<>>]

\* lineIndex must be a line of the text: lines[lineIndex] is read unguarded
findTableAtPosition(documentText, lineIndex) ==
    LET lines == SplitLines(documentText)
    IN  IF ~HasPipe(lines[lineIndex + 1]) THEN NoTable
        ELSE LET startLine == ExpandUp(lines, lineIndex)
                 endLine   == ExpandDown(lines, lineIndex)
             IN  [found |-> TRUE, startLine |-> startLine, endLine |-> endLine,
                  content |-> Join(SubSeq(lines, startLine + 1, endLine + 1),
                                   <<"\n">>)]

-----------------------------------------------------------------------------
(* The session: one document, the extension host and the webview.          *)

MaxInputs == 2
MaxBurstInputs == 3
MaxExtEdits == 1
MaxRows == 3
MaxCols == 3
MaxDocLines == 13
MaxFocusTimers == 1
MaxLoopRounds == 3
TimeStep == 150

DebounceDelay == 300
FocusDelay == 50
DefaultWidth == 150
MinWidth == 50
MaxFitWidth == 500

\* document.getText()
DocText(lines) == Join(lines, <<"\n">>)

\* "p" / "| A | B |" / "|---|---|" / "| k | v |" / "q"
DocWellFormed ==
    << <<"p">>,
       PipeLine(<< <<" ", "A", " ">>, <<" ", "B", " ">> >>),
       PipeLine(<< <<"-", "-", "-">>, <<"-", "-", "-">> >>),
       PipeLine(<< <<" ", "k", " ">>, <<" ", "v", " ">> >>),
       <<"q">> >>

\* "| A |" / "|---|" / "| k |": a table of one column
DocOneColumn ==
    << PipeLine(<< <<" ", "A", " ">> >>),
       PipeLine(<< <<"-", "-", "-">> >>),
       PipeLine(<< <<" ", "k", " ">> >>) >>

\* "|" / "| k |": a first line that is a lone pipe
DocLonePipe == << <<"|">>, PipeLine(<< <<" ", "k", " ">> >>) >>

\* "| k |": a table of one line
DocOneLine == << PipeLine(<< <<" ", "k", " ">> >>) >>

\* "| A |" / "|---|" / "| k |" / "" / "| B |" / "|---|" / "| v |": two tables
DocTwoTables ==
    DocOneColumn \o << <<>> >> \o
    << PipeLine(<< <<" ", "B", " ">> >>),
       PipeLine(<< <<"-", "-", "-">> >>),
       PipeLine(<< <<" ", "v", " ">> >>) >>

InitialDocs == {DocWellFormed, DocOneColumn, DocLonePipe, DocOneLine}

\* the values a user types into a cell
TypedValues == { <<"x">>, <<"x", " ">> }

\* the offsets addRow and addColumn are called with (1: below / right, 0: above / left)
Offsets == {-1, 0, 1, 2}

\* [['', ''], ['', '']]
DefaultGrid == << << <<>>, <<>> >>, << <<>>, <<>> >> >>

Digits == <<"0", "1", "2", "3", "4", "5", "6", "7", "8", "9">>

\* String(index) for index >= 0
RECURSIVE ToDecimal(_)
ToDecimal(n) ==
    IF n < 10 THEN <<Digits[n + 1]>>
    ELSE ToDecimal(n \div 10) \o <<Digits[(n % 10) + 1]>>

InsertAt(seq, k, x) == SubSeq(seq, 1, k) \o <<x>> \o SubSeq(seq, k + 1, Len(seq))

\* an index that is always the end
ClampToEnd(i, n) == n

\* Math.min(Math.max(i, 0), n)
Clamp(i, n) == Min(Max(i, 0), n)

\* row[0] = value on a copy of the row (an empty row grows to one cell)
SetFirst(row, value) == IF row = <<>> THEN <<value>> ELSE [row EXCEPT ![1] = value]

\* a numbering that starts at 0 in the first data row
updateRowNumbersFromZero(grid) ==
    [r \in 1..Len(grid) |->
        IF r = 1 THEN grid[r] ELSE SetFirst(grid[r], ToDecimal(r - 2))]

\* newData of updateRowNumbers: the header kept, data row r numbered r
updateRowNumbers(grid) ==
    [r \in 1..Len(grid) |->
        IF r = 1 THEN grid[r] ELSE SetFirst(grid[r], ToDecimal(r - 1))]

\* the column-width effect, run when data[0].length changed (and on mount)
SyncWidths(widths, grid) ==
    IF Len(initialData) > 0 /\ Len(widths) = 0
    THEN [i \in 1..Len(initialData[1]) |-> DefaultWidth]
    ELSE IF Len(grid) > 0 /\ Len(grid[1]) # Len(widths)
    THEN IF Len(grid[1]) > Len(widths)
         THEN widths \o [i \in 1..(Len(grid[1]) - Len(widths)) |-> DefaultWidth]
         ELSE SubSeq(widths, 1, Len(grid[1]))
    ELSE widths

\* the id setTimeout returns: one no pending timer has
FreshId(used) == CHOOSE i \in 1..(Cardinality(used) + 1) : i \notin used

\* the id of the timer the write-back effect sets next
NewTimerId(pending, handle) ==
    FreshId({t.id : t \in {u \in pending : u.id # handle}}
            \cup {t.id : t \in focusTimers})

\* an effect without the cleanup: the timer of the previous run stays
RescheduleKeepOld(pending, handle, grid) ==
    pending \cup {[id |-> NewTimerId(pending, handle), left |-> DebounceDelay,
                   data |-> grid]}

\* the write-back effect after setData: the cleanup clears the timer of the
\* previous run, then a timer of 300 is set that posts the new grid
Reschedule(pending, handle, grid) ==
    {t \in pending : t.id # handle}
    \cup {[id |-> NewTimerId(pending, handle), left |-> DebounceDelay,
           data |-> grid]}

\* The component after a handler set the state to (grid, widths, mode):
\* the render, the effects whose dependencies changed, and the renders
\* these schedule.  dataSet: the handler called setData.
Commit(grid, widths, mode, dataSet) ==
    IF grid = <<>>
    THEN \* data[0] is undefined: the render throws, the component is
         \* unmounted and the effects' cleanups run
         /\ data' = <<>>
         /\ colWidths' = widths
         /\ isRowIndexColumn' = mode
         /\ timers' = {t \in timers : t.id # debounceHandle}
         /\ debounceHandle' = 0
         /\ UNCHANGED <<sinceChange, posted>>
    ELSE LET widths1  == IF Len(grid[1]) # Len(data[1])
                         THEN SyncWidths(widths, grid) ELSE widths
             renumber == mode /\ (mode # isRowIndexColumn \/ Len(grid) # Len(data))
             numbered == IF renumber THEN updateRowNumbers(grid) ELSE grid
             \* updateRowNumbers calls setData only when the grid differs
             set      == dataSet \/ numbered # grid
         IN  /\ data' = numbered
             /\ colWidths' = widths1
             /\ isRowIndexColumn' = mode
             /\ IF set
                THEN /\ timers' = Reschedule(timers, debounceHandle, numbered)
                     /\ debounceHandle' = NewTimerId(timers, debounceHandle)
                     /\ sinceChange' = 0
                     /\ posted' = 0
                ELSE UNCHANGED <<timers, debounceHandle, sinceChange, posted>>

\* the cells the table renders an input for: 0-based <<row, col>>
RenderedCells ==
    UNION {{<<r, c>> : c \in 0..(Len(data[r + 1]) - 1)} : r \in 0..(Len(data) - 1)}

Mounted == data # <<>>

\* the rows with a delete button, the columns with one: 0-based
BodyRows == 1..(Len(data) - 1)

HeaderColumns == IF Mounted THEN 0..(Len(data[1]) - 1) ELSE {}

\* the command handler up to the panel's first render: the table at the
\* cursor is decoded and the component mounted with it
OpenedOn(docs) ==
    /\ cStage = "input" /\ cGrid = <<>> /\ cText = <<>> /\ cOut = <<>>
    /\ \E d \in docs : \E line \in 0..(Len(d) - 1) :
          LET info  == findTableAtPosition(DocText(d), line)
              table == parseMarkdownTable(info.content)
              grid  == IF Len(table) > 0 THEN table ELSE DefaultGrid
          IN  /\ info.found
              /\ doc = d /\ origDoc = d
              /\ tableInfo = [startLine |-> info.startLine, endLine |-> info.endLine]
              /\ initialData = table
              /\ data = grid
              \* the column-width effect on mount
              /\ colWidths = SyncWidths(<<>>, grid)
              \* the write-back effect on mount
              /\ timers = {[id |-> 1, left |-> DebounceDelay, data |-> grid]}
    /\ debounceHandle = 1
    /\ focusTimers = {}
    /\ isResizing = <<>>
    /\ activeCell = <<>>
    /\ isRowIndexColumn = FALSE
    /\ toExt = <<>> /\ toWeb = <<>>
    /\ sinceChange = 0 /\ posted = 0 /\ loopRounds = 0
    /\ userOps = 0 /\ extEdits = 0

Opened == OpenedOn(InitialDocs)

Init == cKind = "none" /\ Opened

\* the editor opened for a burst of inputs
BurstInit == cKind = "burst" /\ Opened

-----------------------------------------------------------------------------
(* The webview's handlers (TableEditor.tsx).                               *)

\* value.replace(/\n/g, '<br>')
RECURSIVE BreaksToTokens(_)
BreaksToTokens(value) ==
    IF value = <<>> THEN <<>>
    ELSE IF Head(value) = "\n"
    THEN <<"<", "b", "r", ">">> \o BreaksToTokens(Tail(value))
    ELSE <<Head(value)>> \o BreaksToTokens(Tail(value))

\* the inputs a session takes: MaxInputs, and MaxBurstInputs in a burst of
\* inputs made before any write-back is posted
InputBudget == IF cKind = "burst" THEN MaxBurstInputs ELSE MaxInputs

\* what every user mutation does to the history
UserInput ==
    /\ userOps + extEdits < InputBudget
    /\ userOps' = userOps + 1
    /\ loopRounds' = 0
    /\ UNCHANGED <<origDoc, extEdits>>

\* What a handler passes to setData: <<>> when it returns early, <<newData>>
\* otherwise.
SetDataOrReturn(call) ==
    IF call = <<>>
    THEN UNCHANGED <<data, colWidths, isRowIndexColumn, timers, debounceHandle,
                     sinceChange, posted>>
    ELSE Commit(call[1], colWidths, isRowIndexColumn, TRUE)

\* an array slot that was never assigned
EmptySlot == <<"undefined">>

\* row[colIndex] = value on a copy of the row: a slot past the end leaves
\* empty slots before it, a negative index leaves the elements alone
SetCellAt(row, colIndex, value) ==
    IF colIndex < 0 THEN row
    ELSE IF colIndex < Len(row) THEN [row EXCEPT ![colIndex + 1] = value]
    ELSE row \o [k \in 1..(colIndex - Len(row)) |-> EmptySlot] \o <<value>>

\* newData[rowIndex][colIndex] = newValue throws a TypeError when newData
\* has no row at rowIndex
HandleCellChangeThrows(grid, mode, rowIndex, colIndex) ==
    /\ ~(mode /\ colIndex = 0 /\ rowIndex > 0)
    /\ (rowIndex < 0 \/ rowIndex >= Len(grid))

\* [...data[rowIndex]] throws a TypeError when data has no row at rowIndex
DuplicateRowThrows(grid, rowIndex) == rowIndex < 0 \/ rowIndex >= Len(grid)

\* a handleCellChange that takes every cell
HandleCellChangeAnyCell(grid, mode, rowIndex, colIndex, value) ==
    <<[grid EXCEPT ![rowIndex + 1][colIndex + 1] = BreaksToTokens(value)]>>

\* handleCellChange(rowIndex, colIndex, value): the early return and newData
HandleCellChangeCall(grid, mode, rowIndex, colIndex, value) ==
    IF mode /\ colIndex = 0 /\ rowIndex > 0 THEN <<>>
    ELSE <<[grid EXCEPT ![rowIndex + 1] =
                SetCellAt(grid[rowIndex + 1], colIndex, BreaksToTokens(value))]>>

\* the cells whose input takes typing: the textarea of a numbered cell is
\* readOnly
EditableCells ==
    {cell \in RenderedCells : ~(isRowIndexColumn /\ cell[2] = 0 /\ cell[1] > 0)}

\* handleCellChange(rowIndex, colIndex, value), from the onChange of a cell
handleCellChange(rowIndex, colIndex, value) ==
    /\ Mounted
    /\ <<rowIndex, colIndex>> \in EditableCells
    /\ UserInput
    /\ SetDataOrReturn(HandleCellChangeCall(data, isRowIndexColumn,
                                            rowIndex, colIndex, value))
    /\ UNCHANGED <<codecVars, isResizing, hostVars, initialData, activeCell, focusTimers>>

\* handleFocus(rowIndex, colIndex)
handleFocus(rowIndex, colIndex) ==
    /\ Mounted
    /\ <<rowIndex, colIndex>> \in RenderedCells
    /\ activeCell' = <<rowIndex, colIndex>>
    /\ userOps + extEdits < InputBudget
    /\ userOps' = userOps + 1
    /\ UNCHANGED <<codecVars, isResizing, hostVars, initialData, data, colWidths,
                   isRowIndexColumn, timers, debounceHandle, focusTimers,
                   origDoc, sinceChange, posted, loopRounds, extEdits>>

\* an addRow whose new row has no cell
AddRowShort(grid, active, indexOffset, mode) ==
    LET insertIndex == IF active # <<>> THEN active[1] + indexOffset ELSE Len(grid)
    IN  InsertAt(grid, Clamp(insertIndex, Len(grid)), <<>>)

\* newData of addRow(indexOffset)
AddRowData(grid, active, indexOffset, mode) ==
    LET insertIndex == IF active # <<>> THEN active[1] + indexOffset ELSE Len(grid)
        blank       == [j \in 1..Len(grid[1]) |-> <<>>]
        \* newRow[0] = '' when the row-number mode is on
        newRow      == IF mode THEN SetFirst(blank, <<>>) ELSE blank
    IN  InsertAt(grid, Clamp(insertIndex, Len(grid)), newRow)

addRow(indexOffset) ==
    /\ Mounted
    /\ Len(data) < MaxRows
    /\ UserInput
    /\ Commit(AddRowData(data, activeCell, indexOffset, isRowIndexColumn),
              colWidths, isRowIndexColumn, TRUE)
    /\ UNCHANGED <<codecVars, isResizing, hostVars, initialData, activeCell, focusTimers>>

\* newData of addColumn(indexOffset): the index is clamped row by row
AddColumnData(grid, active, indexOffset) ==
    LET insertIndex == IF active # <<>> THEN active[2] + indexOffset ELSE Len(grid[1])
    IN  [r \in 1..Len(grid) |->
            InsertAt(grid[r], Clamp(insertIndex, Len(grid[r])), <<>>)]

\* an updater that puts the new width in front whatever the index
AddColumnWidthsFirst(widths, grid, active, indexOffset) ==
    InsertAt(widths, 0, DefaultWidth)

\* the updater addColumn passes to setColWidths
AddColumnWidths(widths, grid, active, indexOffset) ==
    LET insertIndex == IF active # <<>> THEN active[2] + indexOffset ELSE Len(grid[1])
    IN  InsertAt(widths, Clamp(insertIndex, Len(widths)), DefaultWidth)

addColumn(indexOffset) ==
    /\ Mounted
    /\ Len(data[1]) < MaxCols
    /\ UserInput
    /\ Commit(AddColumnData(data, activeCell, indexOffset),
              AddColumnWidths(colWidths, data, activeCell, indexOffset),
              isRowIndexColumn, TRUE)
    /\ UNCHANGED <<codecVars, isResizing, hostVars, initialData, activeCell, focusTimers>>

\* data.filter((_, i) => i !== index)
FilterOut(seq, index) ==
    IF index >= 0 /\ index < Len(seq) THEN RemoveAt(seq, index + 1) ELSE seq

\* removeRow(index): the early return and newData
RemoveRowCall(grid, index) ==
    IF Len(grid) <= 1 THEN <<>> ELSE <<FilterOut(grid, index)>>

\* removeRow(index), from the button of a body row
removeRow(index) ==
    /\ Mounted
    /\ index \in BodyRows
    /\ UserInput
    /\ SetDataOrReturn(RemoveRowCall(data, index))
    /\ UNCHANGED <<codecVars, isResizing, hostVars, initialData, activeCell, focusTimers>>

\* newData of removeColumn(index)
RemoveColumnData(grid, index) == [r \in 1..Len(grid) |-> FilterOut(grid[r], index)]

\* a removeColumn without the early return
RemoveColumnAlways(grid, index) == <<RemoveColumnData(grid, index)>>

\* removeColumn(index): the early return and newData
RemoveColumnCall(grid, index) ==
    IF Len(grid[1]) <= 1 THEN <<>> ELSE <<RemoveColumnData(grid, index)>>

\* removeColumn(index), from the button of a header cell
removeColumn(index) ==
    /\ Mounted
    /\ index \in HeaderColumns
    /\ UserInput
    /\ SetDataOrReturn(RemoveColumnCall(data, index))
    /\ UNCHANGED <<codecVars, isResizing, hostVars, initialData, activeCell, focusTimers>>

\* a duplicateRow that puts the copy after the last row
DuplicateRowAtEnd(grid, rowIndex) == Append(grid, grid[rowIndex + 1])

\* newData of duplicateRow(rowIndex)
DuplicateRowData(grid, rowIndex) == InsertAt(grid, rowIndex + 1, grid[rowIndex + 1])

\* focusCell(rowIndex, colIndex): a timer of 50 that focuses the cell
FocusLater(rowIndex, colIndex) ==
    focusTimers \cup {[id |-> FreshId({t.id : t \in timers} \cup {t.id : t \in focusTimers}),
                       left |-> FocusDelay, row |-> rowIndex, col |-> colIndex]}

\* the checkbox: setIsRowIndexColumn(checked)
setIsRowIndexColumn ==
    /\ Mounted
    /\ UserInput
    /\ Commit(data, colWidths, ~isRowIndexColumn, FALSE)
    /\ UNCHANGED <<codecVars, isResizing, hostVars, initialData, activeCell, focusTimers>>

\* the keys are pressed in the cell that has the focus
KeyCell == IF activeCell \in RenderedCells THEN {activeCell} ELSE {}

\* handleKeyDown: Shift + Alt + ArrowDown
KeyDuplicateRow ==
    /\ Mounted
    /\ Len(data) < MaxRows
    /\ Cardinality(focusTimers) < MaxFocusTimers
    /\ UserInput
    /\ \E cell \in KeyCell :
          /\ Commit(DuplicateRowData(data, cell[1]), colWidths, isRowIndexColumn, TRUE)
          /\ focusTimers' = FocusLater(cell[1] + 1, cell[2])
    /\ UNCHANGED <<codecVars, isResizing, hostVars, initialData, activeCell>>

\* a variant of KeyAddRow that leaves the focus in the row of the key
KeyAddRowStay ==
    /\ Mounted
    /\ Len(data) < MaxRows
    /\ Cardinality(focusTimers) < MaxFocusTimers
    /\ UserInput
    /\ \E cell \in KeyCell :
          /\ Commit(AddRowData(data, activeCell, 1, isRowIndexColumn),
                    colWidths, isRowIndexColumn, TRUE)
          /\ focusTimers' = FocusLater(cell[1], cell[2])
    /\ UNCHANGED <<codecVars, isResizing, hostVars, initialData, activeCell>>

\* handleKeyDown: Ctrl + Enter or Cmd + Enter
KeyAddRow ==
    /\ Mounted
    /\ Len(data) < MaxRows
    /\ Cardinality(focusTimers) < MaxFocusTimers
    /\ UserInput
    /\ \E cell \in KeyCell :
          /\ Commit(AddRowData(data, activeCell, 1, isRowIndexColumn),
                    colWidths, isRowIndexColumn, TRUE)
          /\ focusTimers' = FocusLater(cell[1] + 1, cell[2])
    /\ UNCHANGED <<codecVars, isResizing, hostVars, initialData, activeCell>>

\* a variant of EnterTarget that wraps to column 0 whatever the mode
EnterTargetFirstColumn(cell) ==
    IF cell[2] = Len(data[1]) - 1
    THEN IF cell[1] < Len(data) - 1 THEN {<<cell[1] + 1, 0>>} ELSE {}
    ELSE {<<cell[1], cell[2] + 1>>}

\* where plain Enter in cell <<r, c>> moves the focus: a set of at most one cell
EnterTarget(cell) ==
    IF cell[2] = Len(data[1]) - 1
    THEN IF cell[1] < Len(data) - 1
         THEN {<<cell[1] + 1, IF isRowIndexColumn THEN 1 ELSE 0>>}
         ELSE {}
    ELSE {<<cell[1], cell[2] + 1>>}

\* handleKeyDown: Enter without Ctrl, Cmd or Shift; nothing is scheduled in
\* the last cell of the last row
KeyEnter ==
    /\ Mounted
    /\ \E cell \in KeyCell :
          IF EnterTarget(cell) = {}
          THEN focusTimers' = focusTimers
          ELSE /\ Cardinality(focusTimers) < MaxFocusTimers
               /\ \E target \in EnterTarget(cell) :
                     focusTimers' = FocusLater(target[1], target[2])
    /\ userOps + extEdits < InputBudget
    /\ userOps' = userOps + 1
    /\ UNCHANGED <<codecVars, isResizing, hostVars, initialData, data, activeCell,
                   colWidths, isRowIndexColumn, timers, debounceHandle,
                   origDoc, sinceChange, posted, loopRounds, extEdits>>

\* handleKeyDown: Shift + Enter returns at once, and a key that no branch
\* takes falls through
KeyIgnored ==
    /\ Mounted
    /\ KeyCell # {}
    /\ userOps + extEdits < InputBudget
    /\ userOps' = userOps + 1
    /\ UNCHANGED <<codecVars, isResizing, hostVars, initialData, data, activeCell,
                   colWidths, isRowIndexColumn, timers, debounceHandle, focusTimers,
                   origDoc, sinceChange, posted, loopRounds, extEdits>>

\* the keyboard events drawn: e.key and the four modifier flags
KeyEvents ==
    [key : {"Enter", "ArrowDown"}, ctrlKey : BOOLEAN, metaKey : BOOLEAN,
     shiftKey : BOOLEAN, altKey : BOOLEAN]

\* a variant of KeyBranch without the early return of Shift + Enter
KeyBranchNoLineBreak(e) ==
    IF e.shiftKey /\ e.altKey /\ e.key = "ArrowDown" THEN "duplicateRow"
    ELSE IF (e.ctrlKey \/ e.metaKey) /\ e.key = "Enter" THEN "addRow"
    ELSE IF ~e.ctrlKey /\ ~e.metaKey /\ ~e.shiftKey /\ e.key = "Enter" THEN "navigate"
    ELSE "none"

\* the branch of handleKeyDown that the event e takes
KeyBranch(e) ==
    IF e.shiftKey /\ e.key = "Enter" THEN "lineBreak"
    ELSE IF e.shiftKey /\ e.altKey /\ e.key = "ArrowDown" THEN "duplicateRow"
    ELSE IF (e.ctrlKey \/ e.metaKey) /\ e.key = "Enter" THEN "addRow"
    ELSE IF ~e.ctrlKey /\ ~e.metaKey /\ ~e.shiftKey /\ e.key = "Enter" THEN "navigate"
    ELSE "none"

\* handleKeyDown(e, rowIndex, colIndex), from the onKeyDown of the cell that
\* has the focus
handleKeyDown(e) ==
    CASE KeyBranch(e) = "duplicateRow" -> KeyDuplicateRow
      [] KeyBranch(e) = "addRow"       -> KeyAddRow
      [] KeyBranch(e) = "navigate"     -> KeyEnter
      [] OTHER                         -> KeyIgnored

\* next[index] = width on a copy of the widths: a slot past the end leaves
\* empty slots before it (0 stands for an empty slot)
SetWidth(widths, index, width) ==
    IF index < Len(widths) THEN [widths EXCEPT ![index + 1] = width]
    ELSE widths \o [k \in 1..(index - Len(widths)) |-> 0] \o <<width>>

\* colWidths[index] || 150
WidthOrDefault(widths, index) ==
    IF index < Len(widths) /\ widths[index + 1] # 0
    THEN widths[index + 1] ELSE DefaultWidth

\* the columns with a resizer: every rendered cell has one
ResizerColumns == {cell[2] : cell \in RenderedCells}

\* a user event that leaves the grid alone
UserGesture ==
    /\ userOps + extEdits < InputBudget
    /\ userOps' = userOps + 1
    /\ UNCHANGED <<origDoc, sinceChange, posted, loopRounds, extEdits>>

\* startResize(index, e), from the mousedown on a resizer
startResize(index) ==
    /\ Mounted
    /\ index \in ResizerColumns
    /\ isResizing = <<>>
    /\ UserGesture
    /\ isResizing' = <<index, WidthOrDefault(colWidths, index)>>
    /\ UNCHANGED <<codecVars, hostVars, initialData, data, activeCell, colWidths,
                   isRowIndexColumn, timers, debounceHandle, focusTimers>>

\* e.clientX - isResizing.startX of the mouse moves drawn
MouseMoves == {-200, 30}

\* handleMouseMove, registered while isResizing is set
handleMouseMove(diff) ==
    /\ Mounted
    /\ isResizing # <<>>
    /\ colWidths' = SetWidth(colWidths, isResizing[1],
                             Max(MinWidth, isResizing[2] + diff))
    /\ UNCHANGED <<codecVars, hostVars, historyVars, initialData, data, activeCell,
                   isRowIndexColumn, timers, debounceHandle, focusTimers, isResizing>>

\* handleMouseUp
handleMouseUp ==
    /\ Mounted
    /\ isResizing # <<>>
    /\ isResizing' = <<>>
    /\ UNCHANGED <<codecVars, hostVars, historyVars, initialData, data, activeCell,
                   colWidths, isRowIndexColumn, timers, debounceHandle, focusTimers>>

\* newWidth of autoFitColumn(index): the characters drawn are all one wide
AutoFitWidth(grid, index) ==
    LET lens   == {Len(grid[r][index + 1]) :
                     r \in {q \in 1..Len(grid) : index < Len(grid[q])}}
        maxLen == CHOOSE m \in lens \cup {1} : \A n \in lens \cup {1} : n <= m
    IN  Max(MinWidth, Min(MaxFitWidth, maxLen * 10 + 20))

\* autoFitColumn(index), from the double click on a resizer
autoFitColumn(index) ==
    /\ Mounted
    /\ index \in ResizerColumns
    /\ UserGesture
    /\ colWidths' = SetWidth(colWidths, index, AutoFitWidth(data, index))
    /\ UNCHANGED <<codecVars, hostVars, initialData, data, activeCell,
                   isRowIndexColumn, timers, debounceHandle, focusTimers, isResizing>>

\* the callback of focusCell's timer: the element, if there is one, is
\* focused (its onFocus calls handleFocus) and made the active cell
FocusFire ==
    \E t \in focusTimers :
        /\ t.left = 0
        /\ focusTimers' = focusTimers \ {t}
        /\ activeCell' = IF Mounted /\ <<t.row, t.col>> \in RenderedCells
                         THEN <<t.row, t.col>> ELSE activeCell
        /\ UNCHANGED <<codecVars, isResizing, hostVars, historyVars, initialData, data, colWidths,
                       isRowIndexColumn, timers, debounceHandle>>

\* the callback of the write-back effect's timer: postMessage(updateTable)
TimerFire ==
    \E t \in timers :
        /\ t.left = 0
        /\ timers' = timers \ {t}
        /\ debounceHandle' = IF debounceHandle = t.id THEN 0 ELSE debounceHandle
        /\ toExt' = Append(toExt, t.data)
        /\ posted' = Min(posted + 1, 2)
        /\ UNCHANGED <<codecVars, isResizing, doc, tableInfo, toWeb, initialData, data, activeCell,
                       colWidths, isRowIndexColumn, focusTimers,
                       origDoc, sinceChange, loopRounds, userOps, extEdits>>

\* time passes, up to the next timer that is due; a message posted to the
\* other side is delivered within the step it was posted in
Tick ==
    LET pending == {t.left : t \in timers} \cup {t.left : t \in focusTimers}
        soonest == CHOOSE m \in pending : \A n \in pending : m <= n
        d       == Min(TimeStep, soonest)
    IN  /\ toExt = <<>> /\ toWeb = <<>>
        /\ pending # {}
        /\ soonest > 0
        /\ timers' = {[t EXCEPT !.left = @ - d] : t \in timers}
        /\ focusTimers' = {[t EXCEPT !.left = @ - d] : t \in focusTimers}
        /\ sinceChange' = Min(DebounceDelay, sinceChange + d)
        /\ UNCHANGED <<codecVars, isResizing, hostVars, initialData, data, activeCell, colWidths,
                       isRowIndexColumn, debounceHandle,
                       origDoc, posted, loopRounds, userOps, extEdits>>

\* handleMessage, case 'syncData'
handleMessage ==
    /\ toWeb # <<>>
    /\ toWeb' = Tail(toWeb)
    /\ IF Mounted /\ Head(toWeb).data # data
       THEN /\ Commit(Head(toWeb).data, colWidths, isRowIndexColumn, TRUE)
            /\ loopRounds' = Min(loopRounds + 1, MaxLoopRounds)
       ELSE UNCHANGED <<data, colWidths, isRowIndexColumn, timers, debounceHandle,
                        sinceChange, posted, loopRounds>>
    /\ UNCHANGED <<codecVars, isResizing, doc, tableInfo, toExt, initialData, activeCell,
                   focusTimers, origDoc, userOps, extEdits>>

-----------------------------------------------------------------------------
(* The extension host (extension.ts).                                      *)

\* The document-change listener.  extension.ts holds none: this is the
\* system overview of the specification ("when the host reports the
\* underlying text changed, the new span is re-located, re-decoded, and
\* offered to GridSession"), the table re-located from its starting line.
SyncMessages(lines, own) ==
    IF tableInfo.startLine < Len(lines)
    THEN LET info == findTableAtPosition(DocText(lines), tableInfo.startLine)
         IN  IF info.found
             THEN <<[data |-> parseMarkdownTable(info.content), own |-> own]>>
             ELSE <<>>
    ELSE <<>>

\* the range the edit replaces: the one captured when the command ran
WriteRange(lines) == tableInfo

\* the document after editBuilder.replace(range, newTableMarkdown.trim());
\* document.lineAt(endLine) throws past the last line and nothing is edited
WriteBack(lines, newData) ==
    LET range   == WriteRange(lines)
        newText == Trim(generateMarkdownTable(newData))
    IN  IF range.endLine >= Len(lines) THEN lines
        ELSE SubSeq(lines, 1, range.startLine)
             \o SplitLines(newText)
             \o SubSeq(lines, range.endLine + 2, Len(lines))

\* onDidReceiveMessage, case 'updateTable'
onDidReceiveMessage ==
    /\ toExt # <<>>
    /\ LET newDoc == WriteBack(doc, Head(toExt))
       IN  /\ Len(newDoc) <= MaxDocLines
           /\ doc' = newDoc
           /\ toWeb' = IF newDoc # doc THEN toWeb \o SyncMessages(newDoc, TRUE)
                       ELSE toWeb
    /\ toExt' = Tail(toExt)
    /\ UNCHANGED <<codecVars, tableInfo, webVars, historyVars>>

\* a handler registered anew by each run of the command, bound to the range
\* that run has found
HandlerRangeRebound(info) == [startLine |-> info.startLine, endLine |-> info.endLine]

\* the range the updateTable handler holds after the command has run with
\* the panel open: the handler is registered when the panel is created only,
\* its closure keeps the tableInfo of that run
HandlerRange(info) == tableInfo

\* the command run again while the panel is open, with the cursor in a table
\* that decodes to another grid than the one the panel was loaded with:
\* reveal, then webview.html is set anew and the page loads with the new
\* window.initialData; the timers of the page it replaces are gone, the
\* messages posted to it reach the new page or are lost
editTableAgain ==
    /\ Mounted
    /\ \E line \in 0..(Len(doc) - 1) :
          LET info  == findTableAtPosition(DocText(doc), line)
              table == parseMarkdownTable(info.content)
              grid  == IF Len(table) > 0 THEN table ELSE DefaultGrid
          IN  /\ info.found
              /\ table # initialData
              /\ tableInfo' = HandlerRange(info)
              /\ initialData' = table
              /\ data' = grid
              /\ colWidths' = SyncWidths(<<>>, grid)
              /\ timers' = {[id |-> 1, left |-> DebounceDelay, data |-> grid]}
    /\ debounceHandle' = 1
    /\ focusTimers' = {}
    /\ isResizing' = <<>>
    /\ activeCell' = <<>>
    /\ isRowIndexColumn' = FALSE
    /\ toWeb' \in {toWeb, <<>>}
    /\ sinceChange' = 0
    /\ UserInput
    /\ UNCHANGED <<codecVars, doc, toExt, posted>>

\* the lines typed into the document outside the webview: a table row of
\* three cells and a line without a pipe
ExternalLines ==
    { PipeLine(<< <<" ", "7", " ">>, <<" ", "y", " ">>, <<" ", "w", " ">> >>), <<"z">> }

\* the user edits the document itself: a line is deleted or replaced
ExternalEdit ==
    /\ extEdits < MaxExtEdits
    /\ userOps + extEdits < MaxInputs
    /\ extEdits' = extEdits + 1
    /\ loopRounds' = 0
    /\ \E k \in 1..Len(doc) :
          \/ /\ Len(doc) > 1
             /\ doc' = RemoveAt(doc, k)
          \/ \E line \in ExternalLines : doc' = [doc EXCEPT ![k] = line]
    /\ toWeb' = toWeb \o SyncMessages(doc', FALSE)
    /\ UNCHANGED <<codecVars, tableInfo, toExt, webVars, origDoc, sinceChange, posted,
                   userOps>>

UserMutation ==
    \/ \E cell \in EditableCells, value \in TypedValues :
          handleCellChange(cell[1], cell[2], value)
    \/ \E indexOffset \in Offsets : addRow(indexOffset)
    \/ \E indexOffset \in Offsets : addColumn(indexOffset)
    \/ \E index \in BodyRows : removeRow(index)
    \/ \E index \in HeaderColumns : removeColumn(index)
    \/ setIsRowIndexColumn
    \/ KeyDuplicateRow
    \/ KeyAddRow

Next ==
    \/ UserMutation
    \/ \E cell \in RenderedCells : handleFocus(cell[1], cell[2])
    \/ \E e \in KeyEvents : handleKeyDown(e)
    \/ \E index \in ResizerColumns : startResize(index)
    \/ \E diff \in MouseMoves : handleMouseMove(diff)
    \/ handleMouseUp
    \/ \E index \in ResizerColumns : autoFitColumn(index)
    \/ FocusFire
    \/ TimerFire
    \/ Tick
    \/ handleMessage
    \/ onDidReceiveMessage

\* a burst: the handlers of the webview and the deferred focus, with time
\* passing until a write-back is due and no write-back posted
BurstNext ==
    \/ UserMutation
    \/ \E cell \in RenderedCells : handleFocus(cell[1], cell[2])
    \/ \E e \in KeyEvents : handleKeyDown(e)
    \/ \E index \in ResizerColumns : startResize(index)
    \/ \E diff \in MouseMoves : handleMouseMove(diff)
    \/ handleMouseUp
    \/ \E index \in ResizerColumns : autoFitColumn(index)
    \/ FocusFire
    \/ Tick

\* the editor taking a burst of inputs before its first write-back
BurstSpec == BurstInit /\ [][BurstNext]_vars

\* the session of an editor whose document is edited through the editor only
Spec == Init /\ [][Next]_vars

EditedNext == Next \/ ExternalEdit

\* the session of an editor whose document is also edited outside it
EditedSpec == Init /\ [][EditedNext]_vars

\* the editor opened on a document of two tables
ReopenInit == cKind = "reopen" /\ OpenedOn({DocTwoTables})

ReopenNext == Next \/ editTableAgain

\* the session in which the command is run again while the panel is open
ReopenSpec == ReopenInit /\ [][ReopenNext]_vars

-----------------------------------------------------------------------------
(* Grid predicates used by the claims.                                     *)

IsRectangular(g) == \A r \in 1..Len(g) : Len(g[r]) = Len(g[1])

\* a cell that holds no pipe and no line feed and has no white space at
\* either end
IsCleanCell(cell) ==
    /\ ~Includes(cell, "|")
    /\ ~Includes(cell, "\n")
    /\ Trim(cell) = cell

IsCleanGrid(g) == \A r \in 1..Len(g) : \A j \in 1..Len(g[r]) : IsCleanCell(g[r][j])

-----------------------------------------------------------------------------
(* Locator experiments: findTableAtPosition applied to drawn documents.     *)

MaxLocateLines == 4

\* lines of the drawn documents: without a pipe, with pipes, a pipe after
\* white space, empty, white space only
LocateLines ==
    { <<"p">>, <<"|", " ", "A", " ", "|">>, <<" ", " ", "|">>, <<>>, <<" ">> }

\* "pre\n| A |\n|---|\n| 1 |\npost\n" as lines
LocateScenario ==
    << <<"p", "r", "e">>, <<"|", " ", "A", " ", "|">>, <<"|", "-", "-", "-", "|">>,
       <<"|", " ", "1", " ", "|">>, <<"p", "o", "s", "t">>, <<>> >>

LocateDocs ==
    UNION {[1..n -> LocateLines] : n \in 1..MaxLocateLines} \cup {LocateScenario}

\* a document, its line break and a valid line index are drawn
LocateInit ==
    /\ SessionIdle
    /\ cKind = "locate" /\ cStage = "input"
    /\ cOut = <<>>
    /\ \E lines \in LocateDocs, eol \in LineBreaks, lineIndex \in 0..MaxLocateLines + 1 :
          /\ lineIndex < Len(lines)
          /\ cGrid = [lines |-> lines, lineIndex |-> lineIndex]
          /\ cText = Join(lines, eol)

\* findTableAtPosition applied to the drawn document and line index
Locate ==
    /\ cKind = "locate" /\ cStage = "input"
    /\ cOut' = findTableAtPosition(cText, cGrid.lineIndex)
    /\ cStage' = "located"
    /\ UNCHANGED <<cKind, cGrid, cText, sessionVars>>

LocateNext == Locate

LocateSpec == LocateInit /\ [][LocateNext]_vars

-----------------------------------------------------------------------------
(* The session's claims.                                                    *)

\* the span of the table that starts at the session's starting line now
CurrentSpan(lines) ==
    IF tableInfo.startLine < Len(lines)
    THEN LET info == findTableAtPosition(DocText(lines), tableInfo.startLine)
         IN  IF info.found
             THEN [startLine |-> info.startLine, endLine |-> info.endLine]
             ELSE tableInfo
    ELSE tableInfo

\* pre + encode(grid) + post around the current span
SpanReplaced(lines, grid) ==
    LET span == CurrentSpan(lines)
    IN  SubSeq(lines, 1, span.startLine)
        \o SplitLines(Trim(generateMarkdownTable(grid)))
        \o SubSeq(lines, span.endLine + 2, Len(lines))

\* a step of the updateTable handler, of the syncData handler
WriteBackStep == toExt # <<>> /\ toExt' = Tail(toExt)

ReconcileStep == toWeb # <<>> /\ toWeb' = Tail(toWeb) /\ Mounted

(* C2 (as stated): a write-back replaces exactly the lines of the table's  *)
(* current span: the document after it is the text before the span, the    *)
(* encoding of the grid, the text after the span.                          *)
C2_WriteBackReplacesCurrentSpan ==
    [][(WriteBackStep /\ origDoc = DocWellFormed)
         => doc' = SpanReplaced(doc, Head(toExt))]_vars

(* C3 (as stated): a reconcile with the grid decoded from text the session *)
(* wrote itself never alters the grid, whatever edits the user made and    *)
(* whatever write-backs are pending.                                       *)
C3_OwnTextLeavesGrid ==
    [][(ReconcileStep /\ Head(toWeb).own /\ origDoc = DocWellFormed
          /\ IsCleanGrid(data))
         => data' = data]_vars

(* C4 (as stated, in finite form): after the last user input the session   *)
(* settles; its own write-backs do not make reconcile replace the grid     *)
(* round after round.                                                      *)
C4_SettlesAfterInput ==
    (origDoc = DocWellFormed /\ userOps >= 1) => loopRounds <= 2

(* C5: from a rectangular grid (a grid has at least one row and one        *)
(* column) every grid mutation of the editor, with any active cell and any *)
(* offset, gives a rectangular grid.                                       *)
C5_MutationsKeepRectangular ==
    [][(IsRectangular(data) /\ Len(data) >= 1 /\ Len(data[1]) >= 1 /\ UserMutation)
         => IsRectangular(data')]_vars

\* a row was inserted above the active cell's row, offset 0
C5_Witness ==
    /\ activeCell = <<1, 1>>
    /\ Len(data) = 3
    /\ data[2] = << <<>>, <<>> >>
    /\ data[3][1] = <<"k">>
    /\ IsRectangular(data)

(* C6 (as stated): while the row-number mode is on, the first cell of the  *)
(* data row at index i holds the decimal text of i.                        *)
C6_RowNumbersHold ==
    (Mounted /\ isRowIndexColumn /\ origDoc = DocWellFormed) =>
        \A r \in 2..Len(data) : Len(data[r]) >= 1 /\ data[r][1] = ToDecimal(r - 1)

(* C7 (as stated): in every reachable state the grid has at least one row  *)
(* and its first row at least one column.                                  *)
C7_MinimumShape ==
    Len(data) >= 1 /\ Len(data[1]) >= 1

ColumnCount(g) == IF g = <<>> THEN 0 ELSE Len(g[1])

\* the widths kept by index, 150 for every new column
ResizedWidths(widths, n) ==
    [i \in 1..n |-> IF i <= Len(widths) THEN widths[i] ELSE DefaultWidth]

(* C8 (as stated): a reconcile with a grid equal to the current one        *)
(* changes nothing and schedules no write-back; with a different grid the  *)
(* grid becomes that grid and the widths are resized to its column count.  *)
C8_ReconcileReplacesOrIgnores ==
    [][ReconcileStep =>
          LET newGrid == Head(toWeb).data
          IN  IF newGrid = data
              THEN UNCHANGED <<data, colWidths, timers, debounceHandle>>
              ELSE /\ data' = newGrid
                   /\ colWidths' = ResizedWidths(colWidths, ColumnCount(newGrid))]_vars

(* C9: at most one write-back timer is pending; it carries the grid as it  *)
(* is after the last change and is due 300 after that change; between two  *)
(* changes at most one write-back is posted, and none is pending exactly   *)
(* when that one was posted.                                               *)
C9_DebounceCoalesces ==
    Mounted =>
        /\ Cardinality(timers) <= 1
        /\ \A t \in timers : t.data = data /\ t.left + sinceChange = DebounceDelay
        /\ posted <= 1
        /\ (timers = {}) <=> (posted = 1)

\* two cells were typed into before the first write-back, and the one
\* message posted carries the grid with both
C9_Witness ==
    /\ origDoc = DocWellFormed /\ doc = origDoc
    /\ data = << << <<"x">>, <<"B">> >>, << <<"k">>, <<"x">> >> >>
    /\ posted = 1 /\ timers = {}
    /\ toExt = <<data>>

-----------------------------------------------------------------------------
(* C1 (as stated): decoding the encoding of any rectangular grid with at   *)
(* least one row and one column gives the grid back, cell by cell.         *)
C1_RoundTripAnyCells ==
    (cKind = "grid" /\ cStage = "decoded") => cOut = cGrid

(* C1 (amended): the round trip gives the grid back whenever no cell holds *)
(* a pipe or a line feed or has leading or trailing white space.           *)
C1_RoundTripCleanCells ==
    (cKind = "grid" /\ cStage = "decoded" /\ IsCleanGrid(cGrid)) => cOut = cGrid

\* a clean 2 x 2 grid with cells of different lengths (so padding was added
\* and removed again) has made the round trip
C1_Witness ==
    /\ cKind = "grid" /\ cStage = "decoded"
    /\ IsCleanGrid(cGrid)
    /\ Len(cGrid) = 2 /\ Len(cGrid[1]) = 2
    /\ cGrid[1][1] = <<"a", "b", "c", "d">> /\ cGrid[2][1] = <<"a">>
    /\ cOut = cGrid

(* C10: a well-formed pipe table of a header line with c cells, a          *)
(* separator line and n data lines with c cells decodes to n + 1 rows of   *)
(* c trimmed cells: the header first, the separator line absent.           *)
C10_DecodeWellFormed ==
    (cKind = "text" /\ cStage = "decoded") =>
        /\ Len(cOut) = Len(cGrid)
        /\ \A r \in 1..Len(cGrid) :
              /\ Len(cOut[r]) = Len(cGrid[1])
              /\ \A j \in 1..Len(cGrid[1]) : cOut[r][j] = Trim(cGrid[r][j])

\* the spec's scenario, up to the cell texts: a header, a separator and one
\* data line of two padded cells each decoded to a 2 x 2 grid
C10_Witness ==
    /\ cKind = "text" /\ cStage = "decoded"
    /\ Len(cGrid) = 2 /\ Len(cGrid[1]) = 2
    /\ cGrid[2][2] = <<" ", "a", " ">>
    /\ cOut = << <<<<"a">>, <<"a">>>>, <<<<"a">>, <<"a">>>> >>

\* the line holds a pipe
HoldsPipe(line) == \E k \in 1..Len(line) : line[k] = "|"

(* C11: for every valid line index i, findTableAtPosition returns none     *)
(* exactly when line i holds no pipe; otherwise a span around i of lines   *)
(* that all hold a pipe, with no pipe line next to it on either side, and  *)
(* as content those lines joined by a line feed.                           *)
C11_FindTableSpan ==
    (cKind = "locate" /\ cStage = "located") =>
        LET lines == cGrid.lines
            i     == cGrid.lineIndex
        IN  IF ~HoldsPipe(lines[i + 1]) THEN ~cOut.found
            ELSE /\ cOut.found
                 /\ 0 <= cOut.startLine /\ cOut.startLine <= i
                 /\ i <= cOut.endLine /\ cOut.endLine < Len(lines)
                 /\ \A k \in cOut.startLine..cOut.endLine : HoldsPipe(lines[k + 1])
                 /\ cOut.startLine = 0 \/ ~HoldsPipe(lines[cOut.startLine])
                 /\ cOut.endLine = Len(lines) - 1 \/ ~HoldsPipe(lines[cOut.endLine + 2])
                 /\ cOut.content =
                      Join(SubSeq(lines, cOut.startLine + 1, cOut.endLine + 1), <<"\n">>)

\* the spec's scenario: the cursor on line 1 of the six-line document
C11_Witness ==
    /\ cKind = "locate" /\ cStage = "located"
    /\ cGrid.lines = LocateScenario /\ cGrid.lineIndex = 1
    /\ cOut.found /\ cOut.startLine = 1 /\ cOut.endLine = 3


NoLineFeed(g) == \A r \in 1..Len(g) : \A j \in 1..Len(g[r]) : ~Includes(g[r][j], "\n")

\* w_j: the longest cell of column j, at least 3
ColumnWidth(g, j) ==
    LET lens == {Len(g[r][j]) : r \in 1..Len(g)}
    IN  Max(3, CHOOSE m \in lens : \A n \in lens : n <= m)

\* '| ' + cells joined by ' | ' + ' |'
TableLine(cells) ==
    <<"|", " ">> \o Join(cells, <<" ", "|", " ">>) \o <<" ", "|">>

\* the header, the separator line, the data rows in order
ExpectedLines(g) ==
    LET padded(r) == [j \in 1..Len(g[1]) |-> PadEnd(g[r][j], ColumnWidth(g, j))]
        hyphens   == [j \in 1..Len(g[1]) |-> Repeat("-", ColumnWidth(g, j))]
    IN  <<TableLine(padded(1)), TableLine(hyphens)>>
        \o [k \in 1..(Len(g) - 1) |-> TableLine(padded(k + 1))]

(* C12 (as stated): the text generated for a rectangular grid of r rows is *)
(* exactly r + 1 lines, each ended by a line feed: the header, the         *)
(* separator, the data rows, every cell padded to its column's width.      *)
C12_GeneratedLines ==
    (cKind = "grid" /\ cStage = "encoded") =>
        SplitOn(cText, "\n") = ExpectedLines(cGrid) \o << <<>> >>

(* C12 (amended): the same, for grids whose cells hold no line feed.       *)
C12_GeneratedLinesNoLineFeed ==
    (cKind = "grid" /\ cStage = "encoded" /\ NoLineFeed(cGrid)) =>
        SplitOn(cText, "\n") = ExpectedLines(cGrid) \o << <<>> >>

\* [["a", "abcd"], ["ab", "ab"]] was encoded: the first column padded to 3,
\* the second to 4
C12_Witness ==
    /\ cKind = "grid" /\ cStage = "encoded"
    /\ cGrid = << << <<"a">>, <<"a", "b", "c", "d">> >>,
                  << <<"a", "b">>, <<"a", "b">> >> >>
    /\ cText =
        <<"|", " ", "a", " ", " ", " ", "|", " ", "a", "b", "c", "d", " ",
        "|", "\n", "|", " ", "-", "-", "-", " ", "|", " ", "-", "-", "-",
        "-", " ", "|", "\n", "|", " ", "a", "b", " ", " ", "|", " ", "a",
        "b", " ", " ", " ", "|", "\n">>


\* the index the claims give for an insertion with the active cell's
\* coordinate anchor (row or column) and count rows or columns
InsertionIndex(anchor, indexOffset, count) ==
    IF activeCell # <<>>
    THEN Min(Max(activeCell[anchor] + indexOffset, 0), count)
    ELSE count

\* the grid with one row of columnCount empty strings at index k
RowInserted(grid, k) ==
    SubSeq(grid, 1, k) \o << [j \in 1..Len(grid[1]) |-> <<>>] >>
    \o SubSeq(grid, k + 1, Len(grid))

\* with the row-number mode on, the renumbering that follows a change of
\* the row count is part of the step
Settled(grid) == IF isRowIndexColumn THEN updateRowNumbers(grid) ELSE grid

RowBuiltInserted(grid, k) ==
    LET newRow == IF isRowIndexColumn /\ Len(grid[1]) = 0
                  THEN << <<>> >>
                  ELSE [j \in 1..Len(grid[1]) |-> <<>>]
    IN  SubSeq(grid, 1, k) \o <<newRow>> \o SubSeq(grid, k + 1, Len(grid))

CellInserted(row, k) == SubSeq(row, 1, k) \o << <<>> >> \o SubSeq(row, k + 1, Len(row))

WidthInserted(widths, k) ==
    SubSeq(widths, 1, k) \o <<DefaultWidth>> \o SubSeq(widths, k + 1, Len(widths))

ColumnInserted(indexOffset) ==
    LET k == InsertionIndex(2, indexOffset, Len(data[1]))
    IN  /\ data' = [r \in 1..Len(data) |-> CellInserted(data[r], k)]
        /\ colWidths' = WidthInserted(colWidths, k)

C15_RemoveLastIsNoOp ==
    [][/\ \A index \in HeaderColumns :
             (removeColumn(index) /\ Len(data[1]) = 1)
             => /\ UNCHANGED <<data, colWidths, activeCell, isRowIndexColumn>>
                /\ UNCHANGED <<timers, debounceHandle, toExt, doc>>
       /\ Len(data) = 1
             => \A index \in -1..MaxRows : RemoveRowCall(data, index) = <<>>
      ]_vars

\* [[B], [v]] after removeColumn(0) and a second click on the last column's
\* button
C15_Witness ==
    /\ origDoc = DocWellFormed
    /\ data = << << <<"B">> >>, << <<"v">> >> >>
    /\ colWidths = <<DefaultWidth>>
    /\ userOps = 2
    /\ activeCell = <<>>
    /\ ~isRowIndexColumn

\* C16: removeColumn(index) on a grid of more than one column deletes the
\* entry of the column widths at that index, so that every remaining column
\* keeps its own width.
C16_RemoveColumnDropsItsWidth ==
    [][\A index \in HeaderColumns :
          (/\ removeColumn(index)
           /\ Len(data[1]) > 1
           /\ Len(colWidths) = Len(data[1]))
          => colWidths' = FilterOut(colWidths, index)]_vars

\* C17: while the editor shows a grid, the column widths have exactly one
\* entry per column of row 0.
C17_OneWidthPerColumn == Mounted => Len(colWidths) = Len(data[1])

\* C18: handleCellChange(row, col, value) in row-number mode with col = 0
\* and row >= 1 returns early for every value, leaving the grid as it is and
\* scheduling nothing; every cell change that the editor takes replaces
\* exactly the cell (row, col) and leaves all other cells unchanged.
C18_SetCellGuard ==
    [][/\ \A cell \in RenderedCells : \A value \in TypedValues :
             handleCellChange(cell[1], cell[2], value)
             => data' = [data EXCEPT ![cell[1] + 1][cell[2] + 1] = BreaksToTokens(value)]
       /\ \A cell \in RenderedCells : \A value \in TypedValues :
             (cell[2] = 0 /\ cell[1] >= 1)
             => HandleCellChangeCall(data, TRUE, cell[1], 0, value) = <<>>
      ]_vars

\* [[A, B], [k, v]] numbered, then "x" typed into the cell (1, 1)
C18_Witness ==
    /\ isRowIndexColumn
    /\ data = << << <<"A">>, <<"B">> >>, << <<"1">>, <<"x">> >> >>
    /\ userOps = 2

-----------------------------------------------------------------------------
(* Cell text experiments: a typed value stored by handleCellChange and      *)
(* shown again by the cell's textarea.                                      *)

MaxCellLen == 4

\* the characters of the typed values: a letter, a line feed and the
\* characters of "<br>"
CellChars == {"a", "\n", "<", "b", "r", ">"}

CellValues == UNION {[1..n -> CellChars] : n \in 0..MaxCellLen}

\* cell.replace(/<br>/g, '\n')
RECURSIVE TokensToBreaks(_)
TokensToBreaks(cell) ==
    IF cell = <<>> THEN <<>>
    ELSE IF Len(cell) >= 4 /\ SubSeq(cell, 1, 4) = <<"<", "b", "r", ">">>
    THEN <<"\n">> \o TokensToBreaks(SubSeq(cell, 5, Len(cell)))
    ELSE <<Head(cell)>> \o TokensToBreaks(Tail(cell))

\* a value typed into a cell is drawn
CellInit ==
    /\ SessionIdle
    /\ cKind = "cell" /\ cStage = "input"
    /\ cGrid \in CellValues
    /\ cText = <<>> /\ cOut = <<>>

\* handleCellChange stores the value in the grid's cell
StoreCell ==
    /\ cKind = "cell" /\ cStage = "input"
    /\ cText' = BreaksToTokens(cGrid)
    /\ cStage' = "stored"
    /\ UNCHANGED <<cKind, cGrid, cOut, sessionVars>>

\* the render gives the textarea its value
DisplayCell ==
    /\ cKind = "cell" /\ cStage = "stored"
    /\ cOut' = TokensToBreaks(cText)
    /\ cStage' = "displayed"
    /\ UNCHANGED <<cKind, cGrid, cText, sessionVars>>

CellNext == StoreCell \/ DisplayCell

CellSpec == CellInit /\ [][CellNext]_vars

\* C19: for every value typed into a cell, the text the cell displays after
\* the value was stored is exactly the typed value.
C19_TokenRoundTrip == (cKind = "cell" /\ cStage = "displayed") => cOut = cGrid

\* C20: enabling the row-number mode on a grid with n data rows gives a grid
\* whose data row r holds the decimal text of r in column 0, for every
\* 1 <= r <= n and whatever the cell held, while the header row and every
\* cell in the columns from 1 on are unchanged.
C20_EnableNumbersRows ==
    [][(setIsRowIndexColumn /\ ~isRowIndexColumn)
       => /\ isRowIndexColumn'
          /\ Len(data') = Len(data)
          /\ data'[1] = data[1]
          /\ \A r \in 2..Len(data) :
                /\ Len(data'[r]) = Max(Len(data[r]), 1)
                /\ data'[r][1] = ToDecimal(r - 1)
                /\ \A j \in 2..Len(data[r]) : data'[r][j] = data[r][j]
      ]_vars

\* the grid of 1 header and 2 data rows, [[A, B], [k, v], ["", ""]], numbered
C20_Witness ==
    /\ isRowIndexColumn
    /\ userOps = 2
    /\ data = << << <<"A">>, <<"B">> >>, << <<"1">>, <<"v">> >>, << <<"2">>, <<>> >> >>

\* C21: duplicateRow(index), run by Shift+Alt+ArrowDown in a cell of row
\* index with the row-number mode off, yields a grid of one more row in which
\* the rows 0..index are unchanged, row index+1 equals row index cell by
\* cell and every former row j > index is at j+1; the column count is
\* unchanged.
C21_DuplicateRowBelow ==
    [][(KeyDuplicateRow /\ ~isRowIndexColumn)
       => LET index == activeCell[1]
          IN  /\ Len(data') = Len(data) + 1
              /\ \A j \in 0..index : data'[j + 1] = data[j + 1]
              /\ data'[index + 2] = data[index + 1]
              /\ \A j \in (index + 1)..(Len(data) - 1) : data'[j + 2] = data[j + 1]
              /\ Len(data'[1]) = Len(data[1])
      ]_vars

\* [[A, B], [k, v]] with the header row duplicated from the cell (0, 0)
C21_Witness ==
    /\ ~isRowIndexColumn
    /\ activeCell = <<0, 0>>
    /\ data = << << <<"A">>, <<"B">> >>, << <<"A">>, <<"B">> >>, << <<"k">>, <<"v">> >> >>

\* the table's starting line still lies in a table of the document
SpanResolves(lines) ==
    /\ tableInfo.startLine < Len(lines)
    /\ findTableAtPosition(DocText(lines), tableInfo.startLine).found

\* C22: a write-back that is due when the table's span no longer resolves to
\* a table in the document is dropped: the document is left as it is.
C22_StaleSpanDropped ==
    [][(WriteBackStep /\ origDoc = DocWellFormed /\ ~SpanResolves(doc))
         => doc' = doc]_vars

-----------------------------------------------------------------------------
(* Decoding experiments: parseMarkdownTable applied to table lines whose    *)
(* rows differ in length and hold separator-like cells.                     *)

MaxDecodeLines == 3
MaxDecodeCols == 2

\* cell texts of the drawn lines, none with white space or a pipe: a word,
\* the empty text, hyphens, hyphens between colons, a lone colon
DecodeCells ==
    { <<"a">>, <<>>, <<"-", "-", "-">>, <<":", "-", ":">>, <<":">> }

DecodeRows == UNION {[1..n -> DecodeCells] : n \in 0..MaxDecodeCols}

\* the line of a row: "|" for the row without a cell
RowLine(cells) == IF cells = <<>> THEN <<"|">> ELSE PipeLine(cells)

\* the rows of a table text are drawn
DecodeInit ==
    /\ SessionIdle
    /\ cKind = "rows" /\ cStage = "input"
    /\ cOut = <<>>
    /\ \E n \in 2..MaxDecodeLines : \E rows \in [1..n -> DecodeRows] :
          /\ cGrid = rows
          /\ cText = Join([k \in 1..n |-> RowLine(rows[k])], <<"\n">>) \o <<"\n">>

\* parseMarkdownTable applied to the drawn text
DecodeRowsStep ==
    /\ cKind = "rows" /\ cStage = "input"
    /\ cOut' = parseMarkdownTable(cText)
    /\ cStage' = "decoded"
    /\ UNCHANGED <<cKind, cGrid, cText, sessionVars>>

DecodeNext == DecodeRowsStep

DecodeSpec == DecodeInit /\ [][DecodeNext]_vars

\* a cell of one or more hyphens, optionally after one colon and optionally
\* before one colon
IsAlignmentCell(cell) ==
    LET first == IF StartsWith(cell, ":") THEN 2 ELSE 1
        last  == IF EndsWith(cell, ":") THEN Len(cell) - 1 ELSE Len(cell)
    IN  /\ first <= last
        /\ \A k \in first..last : cell[k] = "-"

IsAlignmentRow(row) == row # <<>> /\ \A k \in 1..Len(row) : IsAlignmentCell(row[k])

\* the row with empty cells appended up to n cells
PadRow(row, n) == row \o [k \in 1..(n - Len(row)) |-> <<>>]

\* C23: table text of rows of words and empty cells, in which rows have
\* fewer cells than the header, decodes to the rows padded with empty cells
\* to the header's length.
C23_ShortRowsPadded ==
    (/\ cKind = "rows" /\ cStage = "decoded"
     /\ cGrid[1] # <<>> /\ cGrid[2] # <<>>
     /\ \A r \in 1..Len(cGrid) :
           /\ Len(cGrid[r]) <= Len(cGrid[1])
           /\ \A k \in 1..Len(cGrid[r]) : cGrid[r][k] \in {<<"a">>, <<>>}
     /\ \A k \in 1..Len(cGrid[1]) : cGrid[1][k] = <<"a">>)
    => cOut = [r \in 1..Len(cGrid) |-> PadRow(cGrid[r], Len(cGrid[1]))]

\* C25: the row at index 1 is removed if and only if it has at least one
\* cell and each of its cells is one or more hyphens, optionally after one
\* colon and optionally before one colon; no other row is removed.
C25_SeparatorRemoved ==
    (cKind = "rows" /\ cStage = "decoded")
    => cOut = IF IsAlignmentRow(cGrid[2]) THEN RemoveAt(cGrid, 2) ELSE cGrid

-----------------------------------------------------------------------------
(* Handler experiments: the handlers that change the grid, called with      *)
(* drawn arguments on drawn grids.                                          *)

MaxCallIndex == 3

\* rectangular grids of 1..2 rows and 1..2 columns
CallGrids ==
    { [r \in 1..n |-> [j \in 1..m |-> <<"a">>]] : n \in 1..2, m \in 1..2 }

CallNames ==
    {"handleCellChange", "addRow", "addColumn", "removeRow", "removeColumn", "duplicateRow"}

\* a handler, its grid and mode, the active cell and the integer arguments
CallInit ==
    /\ SessionIdle
    /\ cKind = "call" /\ cStage = "input"
    /\ cText = <<>> /\ cOut = <<>>
    /\ \E name \in CallNames, grid \in CallGrids, mode \in BOOLEAN,
          active \in {<<>>, <<0, 0>>},
          i \in -1..MaxCallIndex, j \in -1..MaxCallIndex :
          cGrid = [name |-> name, grid |-> grid, mode |-> mode,
                   active |-> active, i |-> i, j |-> j]

\* what a handler's call leaves: [threw, grid after the call and its effects]
CallResult(c) ==
    LET kept(call) == IF call = <<>> THEN c.grid ELSE call[1]
        numbered(grid) == IF c.mode THEN updateRowNumbers(grid) ELSE grid
    IN  CASE c.name = "handleCellChange" ->
                IF HandleCellChangeThrows(c.grid, c.mode, c.i, c.j)
                THEN [threw |-> TRUE, grid |-> c.grid]
                ELSE [threw |-> FALSE,
                      grid |-> kept(HandleCellChangeCall(c.grid, c.mode, c.i, c.j, <<"x">>))]
          [] c.name = "addRow" ->
                [threw |-> FALSE,
                 grid |-> numbered(AddRowData(c.grid, c.active, c.i, c.mode))]
          [] c.name = "addColumn" ->
                [threw |-> FALSE, grid |-> AddColumnData(c.grid, c.active, c.i)]
          [] c.name = "removeRow" ->
                [threw |-> FALSE, grid |-> numbered(kept(RemoveRowCall(c.grid, c.i)))]
          [] c.name = "removeColumn" ->
                [threw |-> FALSE, grid |-> kept(RemoveColumnCall(c.grid, c.i))]
          [] c.name = "duplicateRow" ->
                IF DuplicateRowThrows(c.grid, c.i)
                THEN [threw |-> TRUE, grid |-> c.grid]
                ELSE [threw |-> FALSE, grid |-> numbered(DuplicateRowData(c.grid, c.i))]

\* the drawn handler is called
Call ==
    /\ cKind = "call" /\ cStage = "input"
    /\ cOut' = CallResult(cGrid)
    /\ cStage' = "returned"
    /\ UNCHANGED <<cKind, cGrid, cText, sessionVars>>

CallNext == Call

CallSpec == CallInit /\ [][CallNext]_vars

\* C24: for every grid and every integer arguments, indices outside the
\* grid included, handleCellChange, addRow, addColumn, removeRow,
\* removeColumn and duplicateRow complete without raising an error and leave
\* a rectangular grid of at least one row and one column.
C24_NoHandlerFails ==
    (cKind = "call" /\ cStage = "returned")
    => /\ ~cOut.threw
       /\ IsRectangular(cOut.grid)
       /\ Len(cOut.grid) >= 1 /\ Len(cOut.grid[1]) >= 1

\* the cell the claims give for plain Enter in the cell (r, c): a set of at
\* most one cell
EnterGoal(r, c) ==
    LET lastCol == Len(data[1]) - 1
        lastRow == Len(data) - 1
    IN  IF c # lastCol THEN {<<r, c + 1>>}
        ELSE IF r # lastRow THEN {<<r + 1, IF isRowIndexColumn THEN 1 ELSE 0>>}
        ELSE {}

\* the cells of the focus timers
FocusTargets(set) == {<<t.row, t.col>> : t \in set}

\* plain Enter in the active cell leaves the grid, the active cell and the
\* write-back timers alone and defers the focus of the claimed cell, of none
\* in the last cell of the last row
EnterDefersGoal ==
    KeyEnter
    => /\ UNCHANGED <<data, colWidths, isRowIndexColumn, activeCell>>
       /\ UNCHANGED <<timers, debounceHandle, toExt, doc>>
       /\ FocusTargets(focusTimers' \ focusTimers)
             = EnterGoal(activeCell[1], activeCell[2])

\* the focus timer that runs in this step
FiredFocus == focusTimers \ focusTimers'

\* when a deferred focus runs, its cell becomes the active cell if the
\* editor shows such a cell, and the active cell stays otherwise
FocusTakesEffect ==
    FocusFire
    => \E cell \in FocusTargets(FiredFocus) :
          activeCell' = IF cell \in RenderedCells THEN cell ELSE activeCell

AddRowKeys == {e \in KeyEvents : e.key = "Enter" /\ (e.ctrlKey \/ e.metaKey) /\ ~e.shiftKey}

\* the key defers the focus of the cell below the cell it is pressed in and
\* leaves the active cell alone until then
AddRowDefersFocus ==
    /\ FocusTargets(focusTimers' \ focusTimers) = {<<activeCell[1] + 1, activeCell[2]>>}
    /\ UNCHANGED <<activeCell, colWidths, isRowIndexColumn>>

NavigationFired == data' = data /\ focusTimers' # focusTimers

\* a key runs one action of the policy at most: one row more and one
\* deferred focus more at most
OneActionAtMost ==
    /\ Cardinality(focusTimers' \ focusTimers) <= 1
    /\ Len(data') <= Len(data) + 1

\* Shift + Enter changes neither the active cell, now or later, nor the grid
LineBreakOnly == UNCHANGED <<data, activeCell, focusTimers, colWidths, isRowIndexColumn>>

\* C28: every key combination triggers one action of the navigation policy at
\* most, Shift+Enter changes neither the active cell nor the grid, and the
\* navigation of plain Enter fires only when none of Ctrl, Cmd, Shift and Alt
\* is held.
C28_KeyDispatch ==
    [][\A e \in KeyEvents :
          handleKeyDown(e) =>
              /\ OneActionAtMost
              /\ (e.shiftKey /\ e.key = "Enter") => LineBreakOnly
              /\ (e.key = "Enter" /\ NavigationFired)
                     => ~e.ctrlKey /\ ~e.metaKey /\ ~e.shiftKey /\ ~e.altKey
      ]_vars

\* C28, with the modifiers the handler tests: the navigation of plain Enter
\* fires only when none of Ctrl, Cmd and Shift is held, whether Alt is held
\* or not.
C28_KeyDispatchTestedModifiers ==
    [][\A e \in KeyEvents :
          handleKeyDown(e) =>
              /\ OneActionAtMost
              /\ (e.shiftKey /\ e.key = "Enter") => LineBreakOnly
              /\ (e.key = "Enter" /\ NavigationFired)
                     => ~e.ctrlKey /\ ~e.metaKey /\ ~e.shiftKey
              /\ (e.key = "Enter" /\ ~e.ctrlKey /\ ~e.metaKey /\ ~e.shiftKey)
                     => data' = data /\ focusTimers' = focusTimers \cup (focusTimers' \ focusTimers)
                        /\ FocusTargets(focusTimers' \ focusTimers)
                               = EnterGoal(activeCell[1], activeCell[2])
      ]_vars

\* Enter with Alt held or not in cell (0, 0) of [[A, B], [k, v]]: the focus
\* of (0, 1) is deferred
C28_Witness ==
    /\ userOps = 2
    /\ activeCell = <<0, 0>>
    /\ FocusTargets(focusTimers) = {<<0, 1>>}
    /\ data = << << <<"A">>, <<"B">> >>, << <<"k">>, <<"v">> >> >>

\* the grid decoded from the table that lies at the session's starting line
\* in the document; the empty grid if no table lies there
RegionGrid(lines) ==
    IF tableInfo.startLine < Len(lines)
    THEN LET info == findTableAtPosition(DocText(lines), tableInfo.startLine)
         IN  IF info.found THEN parseMarkdownTable(info.content) ELSE <<>>
    ELSE <<>>

\* C29: opening a session and making no edit never changes the table's
\* content: a write-back handled when no input has been made, in the editor
\* or in the document, leaves the grid decoded from the table region as it
\* was, whatever span the session was opened on.
C29_NoEditKeepsContent ==
    [][(WriteBackStep /\ userOps = 0 /\ extEdits = 0)
         => RegionGrid(doc') = RegionGrid(doc)]_vars

\* C30: the active cell, when set, designates an existing cell of the grid:
\* 0 <= row < rowCount and 0 <= col < columnCount, also after removeRow,
\* removeColumn and a reconcile have shrunk the grid (here in the sessions
\* opened on the well-formed table).
C30_ActiveCellExists ==
    (Mounted /\ origDoc = DocWellFormed /\ activeCell # <<>>)
        => /\ activeCell[1] \in 0..(Len(data) - 1)
           /\ activeCell[2] \in 0..(Len(data[1]) - 1)

\* C31: every focus target the key handler computes for plain Enter lies
\* inside the grid, for every grid shape and both values of the row-number
\* mode (here on the rectangular grids with a column at least): the cell
\* whose focus the key defers is a cell the editor shows.
C31_EnterTargetInsideGrid ==
    [][(KeyEnter /\ IsRectangular(data) /\ Len(data[1]) >= 1)
         => FocusTargets(focusTimers' \ focusTimers) \subseteq RenderedCells]_vars

\* the lines with those of the range replaced by the encoding of the grid;
\* the lines as they are when the range ends past the last line
RangeReplaced(lines, range, grid) ==
    IF range.endLine >= Len(lines) THEN lines
    ELSE SubSeq(lines, 1, range.startLine)
         \o SplitLines(Trim(generateMarkdownTable(grid)))
         \o SubSeq(lines, range.endLine + 2, Len(lines))

\* the grids of the tables a cursor can be in
TablesAtCursor(lines) ==
    {parseMarkdownTable(findTableAtPosition(DocText(lines), line).content) :
        line \in {l \in 0..(Len(lines) - 1) : findTableAtPosition(DocText(lines), l).found}}

\* C32: when the command is run for another table while the panel is open,
\* the panel shows the newly decoded grid and the write-back handler is not
\* registered anew: the range captured when the panel was created is never
\* replaced, and every write-back is applied to that range.
C32_HandlerKeepsFirstRange ==
    [][/\ tableInfo' = tableInfo
       /\ editTableAgain =>
              /\ initialData' # initialData
              /\ initialData' \in TablesAtCursor(doc)
              /\ data' = IF Len(initialData') > 0 THEN initialData' ELSE DefaultGrid
       /\ WriteBackStep => doc' = RangeReplaced(doc, tableInfo, Head(toExt))
      ]_vars

\* the panel was opened on the first table and loaded anew with the second
\* one, [[B], [v]]; its write-back has replaced the lines of the first table
C32_Witness ==
    /\ origDoc = DocTwoTables
    /\ tableInfo = [startLine |-> 0, endLine |-> 2]
    /\ initialData = << << <<"B">> >>, << <<"v">> >> >>
    /\ userOps = 1
    /\ toExt = <<>>
    /\ Len(doc) = 7
    /\ Includes(doc[1], "B") /\ Includes(doc[3], "v")
    /\ Includes(doc[5], "B") /\ Includes(doc[7], "v")

-----------------------------------------------------------------------------
(* Normalisation experiments: parseMarkdownTable then generateMarkdownTable *)
(* applied twice to table texts findTableAtPosition returns.                *)

\* a table text of two lines or more is drawn, one findTableAtPosition
\* returns as the content of the table at its first line
NormInit ==
    /\ SessionIdle
    /\ cKind = "norm" /\ cStage = "input"
    /\ cOut = <<>>
    /\ \E n \in 2..MaxDecodeLines : \E rows \in [1..n -> DecodeRows] :
          /\ cGrid = rows
          /\ cText = Join([k \in 1..n |-> RowLine(rows[k])], <<"\n">>)
    /\ findTableAtPosition(cText, 0).found
    /\ findTableAtPosition(cText, 0).content = cText

\* generateMarkdownTable(parseMarkdownTable(text))
Normalise(text) == generateMarkdownTable(parseMarkdownTable(text))

\* the text at hand is decoded and encoded; the text before is kept
NormaliseStep ==
    /\ cKind = "norm" /\ cStage \in {"input", "once"}
    /\ cOut' = cText
    /\ cText' = Normalise(cText)
    /\ cStage' = IF cStage = "input" THEN "once" ELSE "twice"
    /\ UNCHANGED <<cKind, cGrid, sessionVars>>

NormNext == NormaliseStep

NormSpec == NormInit /\ [][NormNext]_vars

\* C33: normalisation is idempotent: for every text T of two lines or more
\* that findTableAtPosition returns as table content, the text normalised
\* twice is the text normalised once.
C33_NormaliseIdempotent ==
    (cKind = "norm" /\ cStage = "twice") => cText = cOut

=========================================================================
